---- MODULE Spec2Model ----
(***************************************************************************)
(* Model of the jada nutrition tracker: the per-day food log with its undo *)
(* stack (src/src/food_log.rs), the food catalog with flattened composite  *)
(* foods and its search (src/src/food_database.rs), the menu handler that  *)
(* logs a food (src/src/main.rs, add_food_to_log) and the per-date store   *)
(* of logs (src/src/food_log.rs, FoodLog).                                 *)
(*                                                                         *)
(* Numbers: the program's f64 servings, quantities and calorie rates are   *)
(* modelled as integers (exact arithmetic).  The program parses servings   *)
(* with str::parse::<f64>() and never checks the sign, so the inputs       *)
(* include zero and negative values.                                       *)
(***************************************************************************)
EXTENDS Integers, Sequences, FiniteSets, TLC

\* ---------------------------------------------------------------- bounds
MaxUndo == 2          \* longest undo stack explored

MaxLogged == 3        \* longest undo stack explored while logging from the catalog

MaxStored == 2        \* most undo actions explored over all the dates of a FoodLog

MaxSessions == 2      \* most user sessions explored on one log file

FoodIds == {"apple", "peanut_butter"}
CompositeIds == {"snack", "meal"}
\* component lists typed for a new composite food: (identifier, quantity)
ComponentLists ==
    { << <<"apple", 1>>, <<"peanut_butter", 2>> >>,
      << <<"snack", 2>> >>,
      << <<"apple", 1>>, <<"snack", 1>> >> }
\* FoodLog::new: Local::now() formatted as %Y-%m-%d on the day of the session
Today == "2024-03-10"

\* servings: f64 parsed from the input line, sign never checked (main.rs:461, 487)
Servings == {0 - 1, 0, 1, 2}

\* food_database.rs BasicFood
KeyedFood(id, kw, c) == [identifier |-> id, keywords |-> kw, calories_per_serving |-> c]

\* a basic food entered with an empty keywords line: "".split(',') is [""];
\* apple is known at two rates, as after an edit of data/basic_foods.yaml
Food(id, c) == KeyedFood(id, <<"">>, c)
BasicFood == {Food("apple", 95), Food("apple", 100), Food("peanut_butter", 190)}

VARIABLES
    entries,          \* DailyLog.entries : Vec<LogEntry>
    undo_stack,       \* DailyLog.undo_stack : Vec<UndoAction>
    basic_foods,      \* FoodDatabase.basic_foods
    composite_foods,  \* FoodDatabase.composite_foods
    results,          \* the Vec the last search_foods or get_calorie_summary call returned
    current_date,     \* FoodLog.current_date
    daily_logs,       \* FoodLog.daily_logs : HashMap<String, DailyLog>
    saved,            \* the daily_logs of data/logs/<user>_logs.yaml
    db_files,         \* data/basic_foods.yaml and data/composite_foods.yaml
    summary,          \* the get_calorie_summary call that is running, if any
    sessions,         \* history: the user sessions started on that file so far
    last,             \* history: the last call, its arguments, result and pre-state
    snaps,            \* history: for each undo action, the entries before its mutation
    run               \* history: shape of the calls since the undo stack was empty

vars == <<entries, undo_stack, basic_foods, composite_foods, results,
          current_date, daily_logs, saved, db_files, summary, sessions, last, snaps, run>>

\* ------------------------------------------------------------ data types
LogEntry(id, s, c) == [food_id |-> id, servings |-> s, calories |-> c]
UndoAdd(id, prev) == [tag |-> "Add", food_id |-> id, prev_servings |-> prev]
UndoRemove(e) == [tag |-> "Remove", entry |-> e]

\* a DailyLog value, with the io::Result of the call that produced it
DailyLog(es, st, res) == [entries |-> es, undo_stack |-> st, result |-> res]

\* DailyLog::new
DailyLogNew == DailyLog(<<>>, <<>>, "Ok")

\* ------------------------------------------------------ sequence helpers
\* iter().position(|e| e.food_id == id): first index, 0 when absent
Position(es, id) ==
    IF \E i \in 1..Len(es) : es[i].food_id = id
    THEN CHOOSE i \in 1..Len(es) :
            /\ es[i].food_id = id
            /\ \A j \in 1..(i - 1) : es[j].food_id # id
    ELSE 0

\* Vec::remove(pos)
RemoveAt(es, pos) == [i \in 1..(Len(es) - 1) |-> IF i < pos THEN es[i] ELSE es[i + 1]]

\* Vec::pop: the vector without its last element
Pop(st) == SubSeq(st, 1, Len(st) - 1)

\* ------------------------------------------------------------- DailyLog
\* add_entry, the food already has an entry at pos: servings += servings,
\* nothing else of the entry is touched
add_entry_merge_IgnoresPrevious(es, st, pos, food, servings) ==
    DailyLog([es EXCEPT ![pos].servings = servings],
             Append(st, UndoAdd(food.identifier, es[pos].servings)),
             "Ok")

add_entry_merge_TakesNewRate(es, st, pos, food, servings) ==
    DailyLog([es EXCEPT ![pos].servings = es[pos].servings + servings,
                        ![pos].calories = food.calories_per_serving],
             Append(st, UndoAdd(food.identifier, es[pos].servings)),
             "Ok")

add_entry_merge(es, st, pos, food, servings) ==
    DailyLog([es EXCEPT ![pos].servings = es[pos].servings + servings],
             Append(st, UndoAdd(food.identifier, es[pos].servings)),
             "Ok")

\* add_entry, the food has no entry yet: push a new entry at the food's rate
add_entry_new(es, st, food, servings) ==
    DailyLog(Append(es, LogEntry(food.identifier, servings, food.calories_per_serving)),
             Append(st, UndoAdd(food.identifier, 0)),
             "Ok")

\* DailyLog::add_entry
add_entry_NeverMerges(es, st, food, servings) ==
    add_entry_new(es, st, food, servings)

add_entry(es, st, food, servings) ==
    LET pos == Position(es, food.identifier) IN
    IF pos # 0
    THEN add_entry_merge(es, st, pos, food, servings)
    ELSE add_entry_new(es, st, food, servings)

\* DailyLog::remove_entry
remove_entry_RemovesLast(es, st, food_id) ==
    IF Position(es, food_id) # 0
    THEN DailyLog(Pop(es), Append(st, UndoRemove(es[Len(es)])), "Ok")
    ELSE DailyLog(es, st, "FoodNotFound")

remove_entry(es, st, food_id) ==
    LET pos == Position(es, food_id) IN
    IF pos # 0
    THEN DailyLog(RemoveAt(es, pos), Append(st, UndoRemove(es[pos])), "Ok")
    ELSE DailyLog(es, st, "FoodNotFound")

\* undo, nothing on the stack
undo_empty_Succeeds(es, st) == DailyLog(<<>>, st, "Ok")

undo_empty(es, st) == DailyLog(es, st, "NoActionsToUndo")

\* undo of UndoAction::Add(food_id, prev_servings), already popped
undo_add_SilentWhenAbsent(es, rest, action) ==
    LET pos == Position(es, action.food_id) IN
    IF pos # 0
    THEN IF action.prev_servings > 0
         THEN DailyLog([es EXCEPT ![pos].servings = action.prev_servings], rest, "Ok")
         ELSE DailyLog(RemoveAt(es, pos), rest, "Ok")
    ELSE DailyLog(es, rest, "Ok")

undo_add(es, rest, action) ==
    LET pos == Position(es, action.food_id) IN
    IF pos # 0
    THEN IF action.prev_servings > 0
         THEN DailyLog([es EXCEPT ![pos].servings = action.prev_servings], rest, "Ok")
         ELSE DailyLog(RemoveAt(es, pos), rest, "Ok")
    ELSE DailyLog(es, rest, "InvalidUndoAction")

\* undo of UndoAction::Remove(entry), already popped
undo_remove_AtFront(es, rest, action) == DailyLog(<<action.entry>> \o es, rest, "Ok")

undo_remove_LosesServings(es, rest, action) ==
    DailyLog(Append(es, [action.entry EXCEPT !.servings = 1]), rest, "Ok")

undo_remove(es, rest, action) == DailyLog(Append(es, action.entry), rest, "Ok")

\* DailyLog::undo
undo(es, st) ==
    IF st = <<>>
    THEN undo_empty(es, st)
    ELSE IF st[Len(st)].tag = "Add"
         THEN undo_add(es, Pop(st), st[Len(st)])
         ELSE undo_remove(es, Pop(st), st[Len(st)])

\* DailyLog::calculate_total_calories
RECURSIVE calculate_total_calories(_)
calculate_total_calories(es) ==
    IF es = <<>> THEN 0
    ELSE es[1].calories * es[1].servings + calculate_total_calories(Tail(es))

\* --------------------------------------------------------- FoodDatabase
\* a component of a CompositeFood: (BasicFood, quantity)
Component(food, q) == [food |-> food, quantity |-> q]
CompositeFood(id, kw, comps) == [identifier |-> id, keywords |-> kw, components |-> comps]

\* iter().find(|f| f.identifier == id): first index, 0 when absent
Find(foods, id) ==
    IF \E i \in 1..Len(foods) : foods[i].identifier = id
    THEN CHOOSE i \in 1..Len(foods) :
            /\ foods[i].identifier = id
            /\ \A j \in 1..(i - 1) : foods[j].identifier # id
    ELSE 0

FoodDatabase(bf, cf, res) == [basic_foods |-> bf, composite_foods |-> cf, result |-> res]

\* FoodDatabase::add_basic_food
add_basic_food(bf, cf, food) ==
    IF \E i \in 1..Len(bf) : bf[i].identifier = food.identifier
    THEN FoodDatabase(bf, cf, "AlreadyExists")
    ELSE FoodDatabase(Append(bf, food), cf, "Ok")

\* the components of a referenced composite, each quantity times the
\* quantity of the reference
RECURSIVE Scaled(_, _)
Scaled(comps, quantity) ==
    IF comps = <<>> THEN <<>>
    ELSE <<Component(comps[1].food, comps[1].quantity * quantity)>>
         \o Scaled(Tail(comps), quantity)

\* add_composite_food, the loop over component_ids: the components built,
\* or the first reference that names no food
RECURSIVE BuildComponents_SkipsUnresolved(_, _, _, _)
BuildComponents_SkipsUnresolved(bf, cf, refs, acc) ==
    IF refs = <<>> THEN [found |-> TRUE, components |-> acc]
    ELSE LET b == Find(bf, refs[1][1])
             c == Find(cf, refs[1][1])
         IN  BuildComponents_SkipsUnresolved(bf, cf, Tail(refs),
                IF b # 0 THEN Append(acc, Component(bf[b], refs[1][2]))
                ELSE IF c # 0 THEN acc \o Scaled(cf[c].components, refs[1][2])
                ELSE acc)

RECURSIVE BuildComponents_KeepsComposite(_, _, _, _)
BuildComponents_KeepsComposite(bf, cf, refs, acc) ==
    IF refs = <<>> THEN [found |-> TRUE, components |-> acc]
    ELSE LET b == Find(bf, refs[1][1])
             c == Find(cf, refs[1][1])
         IN  IF b # 0
             THEN BuildComponents_KeepsComposite(bf, cf, Tail(refs),
                                                 Append(acc, Component(bf[b], refs[1][2])))
             ELSE IF c # 0
             THEN BuildComponents_KeepsComposite(bf, cf, Tail(refs),
                                                 Append(acc, Component(cf[c], refs[1][2])))
             ELSE [found |-> FALSE, components |-> acc]

RECURSIVE BuildComponents_MergesBasic(_, _, _, _)
BuildComponents_MergesBasic(bf, cf, refs, acc) ==
    IF refs = <<>> THEN [found |-> TRUE, components |-> acc]
    ELSE LET b == Find(bf, refs[1][1])
             c == Find(cf, refs[1][1])
             held == {i \in 1..Len(acc) : b # 0 /\ acc[i].food = bf[b]}
         IN  IF b # 0
             THEN BuildComponents_MergesBasic(bf, cf, Tail(refs),
                     IF held # {}
                     THEN [i \in 1..Len(acc) |->
                             IF i \in held
                             THEN Component(acc[i].food, acc[i].quantity + refs[1][2])
                             ELSE acc[i]]
                     ELSE Append(acc, Component(bf[b], refs[1][2])))
             ELSE IF c # 0
             THEN BuildComponents_MergesBasic(bf, cf, Tail(refs),
                                              acc \o Scaled(cf[c].components, refs[1][2]))
             ELSE [found |-> FALSE, components |-> acc]

RECURSIVE BuildComponents(_, _, _, _)
BuildComponents(bf, cf, refs, acc) ==
    IF refs = <<>> THEN [found |-> TRUE, components |-> acc]
    ELSE LET food_id == refs[1][1]
             quantity == refs[1][2]
             b == Find(bf, food_id)
             c == Find(cf, food_id)
         IN  IF b # 0
             THEN BuildComponents(bf, cf, Tail(refs),
                                  Append(acc, Component(bf[b], quantity)))
             ELSE IF c # 0
             THEN BuildComponents(bf, cf, Tail(refs),
                                  acc \o Scaled(cf[c].components, quantity))
             ELSE [found |-> FALSE, components |-> acc]

\* FoodDatabase::add_composite_food
add_composite_food(bf, cf, identifier, keywords, component_ids) ==
    IF \E i \in 1..Len(cf) : cf[i].identifier = identifier
    THEN FoodDatabase(bf, cf, "AlreadyExists")
    ELSE LET built == BuildComponents(bf, cf, component_ids, <<>>) IN
         IF built.found
         THEN FoodDatabase(bf, Append(cf, CompositeFood(identifier, keywords, built.components)), "Ok")
         ELSE FoodDatabase(bf, cf, "NotFound")

\* FoodComponent { food_id, quantity }
FoodComponent(food_id, quantity) == [food_id |-> food_id, quantity |-> quantity]

\* SerializedCompositeFood { identifier, keywords, components }
SerializedCompositeFood(id, kw, comps) ==
    [identifier |-> id, keywords |-> kw, components |-> comps]

\* BasicFoodsWrapper and SerializedCompositeFoodsWrapper, as the two files hold them
DbFiles(bf, records) == [basic_foods |-> bf, composite_foods |-> records]

\* neither file exists
NoFiles == DbFiles(<<>>, <<>>)

\* CompositeFood::to_serialized
to_serialized_UnitQuantities(food) ==
    SerializedCompositeFood(food.identifier, food.keywords,
        [i \in 1..Len(food.components) |->
            FoodComponent(food.components[i].food.identifier, 1)])

to_serialized(food) ==
    SerializedCompositeFood(food.identifier, food.keywords,
        [i \in 1..Len(food.components) |->
            FoodComponent(food.components[i].food.identifier, food.components[i].quantity)])

\* FoodDatabase::save
database_save(bf, cf) == DbFiles(bf, [i \in 1..Len(cf) |-> to_serialized(cf[i])])

\* FoodDatabase::load, the loop over the components of one record: the
\* components found among the basic foods, the others left out with a warning
RECURSIVE resolve_components(_, _)
resolve_components(bf, comps) ==
    IF comps = <<>> THEN <<>>
    ELSE LET b == Find(bf, comps[1].food_id) IN
         (IF b # 0 THEN <<Component(bf[b], comps[1].quantity)>> ELSE <<>>)
             \o resolve_components(bf, Tail(comps))

\* FoodDatabase::load
database_load(files) ==
    FoodDatabase(files.basic_foods,
        [i \in 1..Len(files.composite_foods) |->
            CompositeFood(files.composite_foods[i].identifier,
                          files.composite_foods[i].keywords,
                          resolve_components(files.basic_foods,
                                             files.composite_foods[i].components))],
        "Ok")

\* CompositeFood::get_calories
RECURSIVE get_calories(_)
get_calories(comps) ==
    IF comps = <<>> THEN 0
    ELSE comps[1].food.calories_per_serving * comps[1].quantity
         + get_calories(Tail(comps))

\* ----------------------------------------------------------- search_foods
\* char::to_lowercase on the letters of the sample strings
LowerChar(c) ==
    CASE c = "A" -> "a" [] c = "B" -> "b" [] c = "E" -> "e" [] c = "F" -> "f"
      [] c = "L" -> "l" [] c = "P" -> "p" [] c = "R" -> "r" [] c = "S" -> "s"
      [] OTHER -> c

\* str::to_lowercase
RECURSIVE to_lowercase(_)
to_lowercase(str) ==
    IF Len(str) = 0 THEN ""
    ELSE LowerChar(SubSeq(str, 1, 1)) \o to_lowercase(SubSeq(str, 2, Len(str)))

\* str::starts_with
starts_with(str, prefix) ==
    /\ Len(prefix) <= Len(str)
    /\ SubSeq(str, 1, Len(prefix)) = prefix

\* the condition of both loops of search_foods; prefix is already lower case
food_matches(food, prefix) ==
    \/ starts_with(to_lowercase(food.identifier), prefix)
    \/ \E k \in 1..Len(food.keywords) : starts_with(to_lowercase(food.keywords[k]), prefix)

\* search_foods, the loop over basic_foods
RECURSIVE search_basic_foods(_, _)
search_basic_foods(bf, prefix) ==
    IF bf = <<>> THEN <<>>
    ELSE (IF food_matches(bf[1], prefix)
          THEN << <<bf[1].identifier, bf[1].calories_per_serving>> >>
          ELSE <<>>)
         \o search_basic_foods(Tail(bf), prefix)

\* search_foods, the loop over composite_foods
RECURSIVE search_composite_foods(_, _)
search_composite_foods(cf, prefix) ==
    IF cf = <<>> THEN <<>>
    ELSE (IF food_matches(cf[1], prefix)
          THEN << <<cf[1].identifier, get_calories(cf[1].components)>> >>
          ELSE <<>>)
         \o search_composite_foods(Tail(cf), prefix)

\* FoodDatabase::search_foods
search_foods_CaseSensitive(bf, cf, prefix) ==
    search_basic_foods(bf, prefix) \o search_composite_foods(cf, prefix)

search_foods(bf, cf, prefix) ==
    LET lowered == to_lowercase(prefix) IN
    search_basic_foods(bf, lowered) \o search_composite_foods(cf, lowered)

\* search_foods with the empty search term lists every food of the catalog,
\* so any identifier of the catalog can be the one selected
Identifiers(bf, cf) ==
    {bf[i].identifier : i \in 1..Len(bf)} \cup {cf[i].identifier : i \in 1..Len(cf)}

\* add_food_to_log, the loop over the components of the selected composite:
\* one add_entry per component with servings * quantity; sn collects the
\* entries before each of them
RECURSIVE add_components_PlainServings(_, _, _, _, _)
add_components_PlainServings(es, st, sn, comps, servings) ==
    IF comps = <<>> THEN [entries |-> es, undo_stack |-> st, snaps |-> sn]
    ELSE LET r == add_entry(es, st, comps[1].food, servings) IN
         add_components_PlainServings(r.entries, r.undo_stack, Append(sn, es),
                                      Tail(comps), servings)

RECURSIVE add_components(_, _, _, _, _)
add_components(es, st, sn, comps, servings) ==
    IF comps = <<>> THEN [entries |-> es, undo_stack |-> st, snaps |-> sn]
    ELSE LET r == add_entry(es, st, comps[1].food, servings * comps[1].quantity) IN
         add_components(r.entries, r.undo_stack, Append(sn, es), Tail(comps), servings)

\* -------------------------------------------------------------- history
\* The record of a call: its arguments and result; for an undo also the
\* action it popped and the successful call made right before it.
NoAction == [tag |-> "None"]

Call(op, id, s, c, res, action, prevop) ==
    [op |-> op, food_id |-> id, servings |-> s, calories |-> c, result |-> res,
     popped |-> action, after |-> prevop]

\* the record of an add_composite_food call, with the component list typed
CatalogCall(op, id, refs, res) ==
    [op |-> op, food_id |-> id, component_ids |-> refs, result |-> res]

Min(a, b) == IF a <= b THEN a ELSE b

NewRun == [n |-> 0, k |-> 0, valid |-> TRUE]

\* `count` successful mutations made on top of the undo stack st: a run is
\* n mutations from an empty undo stack followed by k undo calls
RunMutated(st, count) ==
    IF st = <<>> THEN [n |-> count, k |-> 0, valid |-> TRUE]
    ELSE IF run.valid /\ run.k = 0 THEN [run EXCEPT !.n = @ + count]
    ELSE [n |-> 0, k |-> 0, valid |-> FALSE]

RunUndone ==
    IF run.valid THEN [run EXCEPT !.k = Min(@ + 1, run.n + 1)] ELSE run

\* no get_calorie_summary call is running
NoSummary == [pc |-> "idle"]

\* ---------------------------------------------------------------- actions
\* the entry lists a log file may hold: what FoodLog::save wrote from an
\* earlier log, one entry per food, in any order, with any servings typed
SavedEntries ==
    {<<>>}
    \cup {<<LogEntry(f.identifier, s, f.calories_per_serving)>> :
            f \in BasicFood, s \in Servings}
    \cup {<<LogEntry(f.identifier, s, f.calories_per_serving),
            LogEntry(g.identifier, t, g.calories_per_serving)>> :
            f \in BasicFood, g \in BasicFood, s \in Servings, t \in Servings}

UniqueIds(es) == \A i, j \in 1..Len(es) : es[i].food_id = es[j].food_id => i = j

\* DailyLog::new for a date without a saved log, or the DailyLog FoodLog::load
\* builds from a saved one: its entries, and an empty undo stack
Init ==
    /\ entries \in {es \in SavedEntries : UniqueIds(es)}
    /\ undo_stack = DailyLogNew.undo_stack
    /\ basic_foods = <<>>
    /\ composite_foods = <<>>
    /\ results = <<>>
    /\ current_date = Today
    /\ daily_logs = {}
    /\ saved = {}
    /\ sessions = 1
    /\ db_files = NoFiles
    /\ summary = NoSummary
    /\ last = Call("new", "", 0, 0, "Ok", NoAction, "")
    /\ snaps = <<>>
    /\ run = NewRun

\* DailyLog::add_entry, as FoodLog::add_food_entry calls it for a basic food
AddEntry(food, servings) ==
    LET r == add_entry(entries, undo_stack, food, servings) IN
    /\ Len(undo_stack) < MaxUndo
    /\ entries' = r.entries
    /\ undo_stack' = r.undo_stack
    /\ last' = Call("add", food.identifier, servings, food.calories_per_serving,
                    r.result, NoAction, "")
    /\ snaps' = Append(snaps, entries)
    /\ run' = RunMutated(undo_stack, 1)
    /\ UNCHANGED <<summary, basic_foods, composite_foods, results, current_date, daily_logs, saved, sessions, db_files>>

\* DailyLog::remove_entry, as FoodLog::remove_food_entry calls it
RemoveEntry(food_id) ==
    LET r == remove_entry(entries, undo_stack, food_id) IN
    /\ Len(undo_stack) < MaxUndo
    /\ entries' = r.entries
    /\ undo_stack' = r.undo_stack
    /\ last' = Call("remove", food_id, 0, 0, r.result, NoAction, "")
    /\ snaps' = IF r.result = "Ok" THEN Append(snaps, entries) ELSE snaps
    /\ run' = IF r.result = "Ok" THEN RunMutated(undo_stack, 1) ELSE run
    /\ UNCHANGED <<summary, basic_foods, composite_foods, results, current_date, daily_logs, saved, sessions, db_files>>

\* DailyLog::undo, as FoodLog::undo calls it
Undo ==
    LET r == undo(entries, undo_stack) IN
    /\ entries' = r.entries
    /\ undo_stack' = r.undo_stack
    /\ last' = Call("undo", "", 0, 0, r.result,
                    IF undo_stack = <<>> THEN NoAction ELSE undo_stack[Len(undo_stack)],
                    IF last.result = "Ok" THEN last.op ELSE "failed")
    /\ snaps' = Pop(snaps)
    /\ run' = RunUndone
    /\ UNCHANGED <<summary, basic_foods, composite_foods, results, current_date, daily_logs, saved, sessions, db_files>>

Next ==
    \/ \E food \in BasicFood, servings \in Servings : AddEntry(food, servings)
    \/ \E food_id \in FoodIds : RemoveEntry(food_id)
    \/ Undo

Spec == Init /\ [][Next]_vars

\* ------------------------------------------------- catalog and logging
\* the logs a session of the catalog model starts with: none, or the log of
\* an earlier session whose apple was logged at the rate the catalog had then
SavedSamples ==
    { <<>>,
      <<LogEntry("peanut_butter", 2, 190), LogEntry("apple", 1, 100)>> }

\* servings typed when logging from the catalog
LoggedServings == {0 - 1, 2}

\* FoodDatabase::new with no catalog files, and the log of an earlier session
InitCat ==
    /\ entries \in SavedSamples
    /\ undo_stack = DailyLogNew.undo_stack
    /\ basic_foods = <<>>
    /\ composite_foods = <<>>
    /\ results = <<>>
    /\ current_date = Today
    /\ daily_logs = {}
    /\ saved = {}
    /\ sessions = 1
    /\ db_files = NoFiles
    /\ summary = NoSummary
    /\ last = Call("new", "", 0, 0, "Ok", NoAction, "")
    /\ snaps = <<>>
    /\ run = NewRun

\* food_database_menu: FoodDatabase::add_basic_food
AddBasicFood(food) ==
    LET db == add_basic_food(basic_foods, composite_foods, food) IN
    /\ basic_foods' = db.basic_foods
    /\ composite_foods' = db.composite_foods
    /\ db_files' = IF db.result = "Ok"
                    THEN database_save(db.basic_foods, db.composite_foods)
                    ELSE db_files
    /\ last' = Call("add_basic_food", food.identifier, 0, 0, db.result, NoAction, "")
    /\ UNCHANGED <<summary, entries, undo_stack, snaps, run, results, current_date, daily_logs, saved, sessions>>

\* food_database_menu: FoodDatabase::add_composite_food
AddCompositeFood(identifier, keywords, component_ids) ==
    LET db == add_composite_food(basic_foods, composite_foods, identifier, keywords,
                                 component_ids) IN
    /\ basic_foods' = db.basic_foods
    /\ composite_foods' = db.composite_foods
    /\ db_files' = IF db.result = "Ok"
                    THEN database_save(db.basic_foods, db.composite_foods)
                    ELSE db_files
    /\ last' = CatalogCall("add_composite_food", identifier, component_ids, db.result)
    /\ UNCHANGED <<summary, entries, undo_stack, snaps, run, results, current_date, daily_logs, saved, sessions>>

\* add_food_to_log: the selected food is looked up as a basic food first,
\* then as a composite food, whose components are logged one by one
AddFoodToLog(selected_food_id, servings) ==
    LET b == Find(basic_foods, selected_food_id)
        c == Find(composite_foods, selected_food_id)
    IN
    /\ selected_food_id \in Identifiers(basic_foods, composite_foods)
    /\ IF b # 0
       THEN LET r == add_entry(entries, undo_stack, basic_foods[b], servings) IN
            /\ Len(undo_stack) < MaxLogged
            /\ entries' = r.entries
            /\ undo_stack' = r.undo_stack
            /\ last' = Call("add", selected_food_id, servings,
                            basic_foods[b].calories_per_serving, r.result, NoAction, "")
            /\ snaps' = Append(snaps, entries)
            /\ run' = RunMutated(undo_stack, 1)
       ELSE LET comps == composite_foods[c].components
                r == add_components(entries, undo_stack, snaps, comps, servings)
            IN
            /\ Len(undo_stack) + Len(comps) <= MaxLogged
            /\ entries' = r.entries
            /\ undo_stack' = r.undo_stack
            /\ last' = Call("add_composite", selected_food_id, servings,
                            get_calories(comps), "Ok", NoAction, "")
            /\ snaps' = r.snaps
            /\ run' = RunMutated(undo_stack, Len(comps))
    /\ UNCHANGED <<summary, basic_foods, composite_foods, results, current_date, daily_logs, saved, sessions, db_files>>

NextCat ==
    \/ \E food \in BasicFood : AddBasicFood(food)
    \/ \E identifier \in CompositeIds, component_ids \in ComponentLists :
          AddCompositeFood(identifier, <<"">>, component_ids)
    \/ \E selected_food_id \in FoodIds \cup CompositeIds, servings \in LoggedServings :
          AddFoodToLog(selected_food_id, servings)

SpecCat == InitCat /\ [][NextCat]_vars

\* ------------------------------------------------ the catalog on its own
\* foods typed in food_database_menu: two names that differ in letter case
\* only, and a basic food with the name also typed for a composite food
DbFoods ==
    { KeyedFood("apple", <<"fruit">>, 95),
      KeyedFood("Apple", <<"Red", "Fruit">>, 52),
      KeyedFood("snack", <<"bar">>, 200) }

DbCompositeIds == {"snack", "meal"}

\* the keywords line typed with each composite name
DbKeywords(identifier) ==
    IF identifier = "snack" THEN <<"Sweet">> ELSE <<"dinner", "apple pie">>

\* the component lists typed: names of basic foods, of composite foods, of
\* the composite being entered, in first and in later positions
DbComponentLists ==
    { << <<"apple", 1>>, <<"Apple", 2>> >>,
      << <<"snack", 2>> >>,
      << <<"apple", 1>>, <<"snack", 3>> >>,
      << <<"meal", 1>>, <<"apple", 1>> >> }

SearchTerms == {"", "AP", "fr", "s", "zz"}

\* FoodDatabase::new, no catalog files yet
InitDb ==
    /\ entries = DailyLogNew.entries
    /\ undo_stack = DailyLogNew.undo_stack
    /\ basic_foods = <<>>
    /\ composite_foods = <<>>
    /\ results = <<>>
    /\ current_date = Today
    /\ daily_logs = {}
    /\ saved = {}
    /\ sessions = 1
    /\ db_files = NoFiles
    /\ summary = NoSummary
    /\ last = Call("new", "", 0, 0, "Ok", NoAction, "")
    /\ snaps = <<>>
    /\ run = NewRun

\* food_database_menu: FoodDatabase::search_foods
SearchFoods(search_term) ==
    /\ results' = search_foods(basic_foods, composite_foods, search_term)
    /\ last' = Call("search_foods", search_term, 0, 0, "Ok", NoAction, "")
    /\ UNCHANGED <<summary, entries, undo_stack, snaps, run, basic_foods, composite_foods,
                   current_date, daily_logs, saved, sessions, db_files>>

NextDb ==
    \/ \E food \in DbFoods : AddBasicFood(food)
    \/ \E identifier \in DbCompositeIds, component_ids \in DbComponentLists :
          AddCompositeFood(identifier, DbKeywords(identifier), component_ids)
    \/ \E search_term \in SearchTerms : SearchFoods(search_term)

SpecDb == InitDb /\ [][NextDb]_vars

\* --------------------------------------------------------------- FoodLog
\* NaiveDate::parse_from_str(date, "%Y-%m-%d") as chrono scans it: a numeric
\* item takes the longest run of digits at the head of the text, at least
\* one and at most its width (4 for %Y without a sign, 2 for %m and %d), a
\* literal must match, nothing may be left over, and the three numbers must
\* be a date of the calendar.  The dates typed carry no sign and no blanks.
Digits == "0123456789"

IsDigit(c) == \E n \in 1..Len(Digits) : SubSeq(Digits, n, n) = c

DigitValue(c) == (CHOOSE n \in 1..Len(Digits) : SubSeq(Digits, n, n) = c) - 1

\* the number of digits scan::number(s, 1, max) consumes
RECURSIVE DigitRun(_, _)
DigitRun(str, max) ==
    IF max = 0 \/ Len(str) = 0 THEN 0
    ELSE IF IsDigit(SubSeq(str, 1, 1))
         THEN 1 + DigitRun(SubSeq(str, 2, Len(str)), max - 1)
         ELSE 0

\* the value of a run of digits
RECURSIVE NumberOf(_)
NumberOf(str) ==
    IF Len(str) = 0 THEN 0
    ELSE 10 * NumberOf(SubSeq(str, 1, Len(str) - 1))
         + DigitValue(SubSeq(str, Len(str), Len(str)))

IsLeapYear(y) == (y % 4 = 0 /\ y % 100 # 0) \/ y % 400 = 0

DaysInMonth(y, m) ==
    IF m = 2 THEN (IF IsLeapYear(y) THEN 29 ELSE 28)
    ELSE IF m \in {4, 6, 9, 11} THEN 30 ELSE 31

\* NaiveDate::from_ymd_opt(y, m, d).is_some()
IsCalendarDate(y, m, d) ==
    /\ m \in 1..12
    /\ d \in 1..DaysInMonth(y, m)

\* NaiveDate::parse_from_str(date, "%Y-%m-%d").is_ok()
parse_from_str(date) ==
    LET ny == DigitRun(date, 4)
        afterY == SubSeq(date, ny + 1, Len(date))
        nm == DigitRun(SubSeq(afterY, 2, Len(afterY)), 2)
        afterM == SubSeq(afterY, nm + 2, Len(afterY))
        nd == DigitRun(SubSeq(afterM, 2, Len(afterM)), 2)
        afterD == SubSeq(afterM, nd + 2, Len(afterM))
    IN  /\ ny >= 1
        /\ Len(afterY) >= 1 /\ SubSeq(afterY, 1, 1) = "-"
        /\ nm >= 1
        /\ Len(afterM) >= 1 /\ SubSeq(afterM, 1, 1) = "-"
        /\ nd >= 1
        /\ Len(afterD) = 0
        /\ IsCalendarDate(NumberOf(SubSeq(date, 1, ny)),
                          NumberOf(SubSeq(afterY, 2, nm + 1)),
                          NumberOf(SubSeq(afterM, 2, nd + 1)))

\* a DailyLog of the store: DailyLog { date, entries, undo_stack }
StoredLog(date, es, st) == [date |-> date, entries |-> es, undo_stack |-> st]

\* HashMap::contains_key, HashMap::get and HashMap::insert on daily_logs,
\* the map being the set of its values, each under its own date
contains_key(logs, date) == \E l \in logs : l.date = date

get(logs, date) == CHOOSE l \in logs : l.date = date

insert(logs, log) == {l \in logs : l.date # log.date} \cup {log}

\* a FoodLog value, with the io::Result of the call that produced it
FoodLog(cur, logs, file, res) ==
    [current_date |-> cur, daily_logs |-> logs, saved |-> file, result |-> res]

\* FoodLog::save: the dates and entries of every log; undo_stack is #[serde(skip)]
save(logs) == {[date |-> l.date, entries |-> l.entries] : l \in logs}

\* FoodLog::load: a DailyLog with an empty undo stack for every log of the file
load_KeepsNothing(file) == {StoredLog(l.date, <<>>, <<>>) : l \in file}

load(file) == {StoredLog(l.date, l.entries, <<>>) : l \in file}

\* FoodLog::set_current_date
set_current_date_AlwaysInserts(cur, logs, file, date) ==
    IF ~parse_from_str(date)
    THEN FoodLog(cur, logs, file, "InvalidInput")
    ELSE FoodLog(date, insert(logs, StoredLog(date, <<>>, <<>>)), file, "Ok")

set_current_date_ResetsUndo(cur, logs, file, date) ==
    IF ~parse_from_str(date)
    THEN FoodLog(cur, logs, file, "InvalidInput")
    ELSE FoodLog(date,
                 IF ~contains_key(logs, date)
                 THEN insert(logs, StoredLog(date, <<>>, <<>>))
                 ELSE insert(logs, StoredLog(date, get(logs, date).entries, <<>>)),
                 file, "Ok")

set_current_date(cur, logs, file, date) ==
    IF ~parse_from_str(date)
    THEN FoodLog(cur, logs, file, "InvalidInput")
    ELSE FoodLog(date,
                 IF ~contains_key(logs, date)
                 THEN insert(logs, StoredLog(date, <<>>, <<>>))
                 ELSE logs,
                 file, "Ok")

\* FoodLog::add_food_entry: the log of the current date, created if absent,
\* gets the entry, then everything is saved
add_food_entry_RequiresLog(cur, logs, file, food, servings) ==
    IF contains_key(logs, cur)
    THEN LET log == get(logs, cur)
             r == add_entry(log.entries, log.undo_stack, food, servings)
             after == insert(logs, StoredLog(cur, r.entries, r.undo_stack))
         IN  FoodLog(cur, after, save(after), "Ok")
    ELSE FoodLog(cur, logs, file, "NoLogFound")

add_food_entry(cur, logs, file, food, servings) ==
    LET log == IF contains_key(logs, cur) THEN get(logs, cur)
               ELSE StoredLog(cur, <<>>, <<>>)
        r == add_entry(log.entries, log.undo_stack, food, servings)
        after == insert(logs, StoredLog(cur, r.entries, r.undo_stack))
    IN  FoodLog(cur, after, save(after), "Ok")

\* FoodLog::remove_food_entry: an error of remove_entry returns before save
remove_food_entry(cur, logs, file, food_id) ==
    IF contains_key(logs, cur)
    THEN LET log == get(logs, cur)
             r == remove_entry(log.entries, log.undo_stack, food_id)
             after == insert(logs, StoredLog(cur, r.entries, r.undo_stack))
         IN  IF r.result = "Ok"
             THEN FoodLog(cur, after, save(after), "Ok")
             ELSE FoodLog(cur, after, file, r.result)
    ELSE FoodLog(cur, logs, file, "NoLogFound")

\* FoodLog::undo: an error of DailyLog::undo returns before save, after the
\* action was popped
store_undo(cur, logs, file) ==
    IF contains_key(logs, cur)
    THEN LET log == get(logs, cur)
             r == undo(log.entries, log.undo_stack)
             after == insert(logs, StoredLog(cur, r.entries, r.undo_stack))
         IN  IF r.result = "Ok"
             THEN FoodLog(cur, after, save(after), "Ok")
             ELSE FoodLog(cur, after, file, r.result)
    ELSE FoodLog(cur, logs, file, "NoLogFound")

\* the undo actions held by all the logs of the store
RECURSIVE StoredActions(_)
StoredActions(logs) ==
    IF logs = {} THEN 0
    ELSE LET l == CHOOSE x \in logs : TRUE IN
         Len(l.undo_stack) + StoredActions(logs \ {l})

\* the lines typed at "Enter date (YYYY-MM-DD): ", already trimmed
DateInputs ==
    { "2024-03-10", "2024-02-29", "2024-1-5",
      "2023-02-29", "2024-13-01", "2024-01-05x", "today", "" }

\* the log files a session starts from: none, or one day of an earlier session
SavedFiles ==
    { {}, {[date |-> "2024-02-29", entries |-> <<LogEntry("apple", 2, 100)>>]} }

StoreFoods == {Food("apple", 95)}
StoreServings == {1, 2}

\* user_session: FoodLog::new, then load
InitDate ==
    /\ entries = DailyLogNew.entries
    /\ undo_stack = DailyLogNew.undo_stack
    /\ basic_foods = <<>>
    /\ composite_foods = <<>>
    /\ results = <<>>
    /\ current_date = Today
    /\ saved \in SavedFiles
    /\ daily_logs = load(saved)
    /\ sessions = 1
    /\ db_files = NoFiles
    /\ summary = NoSummary
    /\ last = Call("new", "", 0, 0, "Ok", NoAction, "")
    /\ snaps = <<>>
    /\ run = NewRun

\* change_log_date: FoodLog::set_current_date
SetCurrentDate(date) ==
    LET r == set_current_date(current_date, daily_logs, saved, date) IN
    /\ current_date' = r.current_date
    /\ daily_logs' = r.daily_logs
    /\ saved' = r.saved
    /\ last' = Call("set_current_date", date, 0, 0, r.result, NoAction, "")
    /\ UNCHANGED <<summary, entries, undo_stack, snaps, run, basic_foods, composite_foods, results,
                   sessions, db_files>>

\* FoodLog::add_food_entry, as add_food_to_log calls it for a basic food
AddFoodEntry(food, servings) ==
    LET r == add_food_entry(current_date, daily_logs, saved, food, servings) IN
    /\ StoredActions(daily_logs) < MaxStored
    /\ current_date' = r.current_date
    /\ daily_logs' = r.daily_logs
    /\ saved' = r.saved
    /\ last' = Call("add_food_entry", food.identifier, servings,
                    food.calories_per_serving, r.result, NoAction, "")
    /\ UNCHANGED <<summary, entries, undo_stack, snaps, run, basic_foods, composite_foods, results,
                   sessions, db_files>>

\* FoodLog::remove_food_entry, called with any food id
RemoveFoodEntry(food_id) ==
    LET r == remove_food_entry(current_date, daily_logs, saved, food_id) IN
    /\ StoredActions(daily_logs) < MaxStored
    /\ current_date' = r.current_date
    /\ daily_logs' = r.daily_logs
    /\ saved' = r.saved
    /\ last' = Call("remove_food_entry", food_id, 0, 0, r.result, NoAction, "")
    /\ UNCHANGED <<summary, entries, undo_stack, snaps, run, basic_foods, composite_foods, results,
                   sessions, db_files>>

\* FoodLog::undo, as food_log_menu calls it
UndoStore ==
    LET r == store_undo(current_date, daily_logs, saved) IN
    /\ current_date' = r.current_date
    /\ daily_logs' = r.daily_logs
    /\ saved' = r.saved
    /\ last' = Call("store_undo", "", 0, 0, r.result, NoAction, last.op)
    /\ UNCHANGED <<summary, entries, undo_stack, snaps, run, basic_foods, composite_foods, results,
                   sessions, db_files>>

\* user_session once more: FoodLog::new, then load of the file as it is
Reload ==
    /\ sessions < MaxSessions
    /\ sessions' = sessions + 1
    /\ current_date' = Today
    /\ daily_logs' = load(saved)
    /\ last' = Call("load", "", 0, 0, "Ok", NoAction, "")
    /\ UNCHANGED <<summary, saved, entries, undo_stack, snaps, run, basic_foods, composite_foods,
                   results, db_files>>

NextDate ==
    \/ \E date \in DateInputs : SetCurrentDate(date)
    \/ \E food \in StoreFoods, servings \in StoreServings : AddFoodEntry(food, servings)
    \/ \E food \in StoreFoods : RemoveFoodEntry(food.identifier)
    \/ UndoStore

SpecDate == InitDate /\ [][NextDate]_vars

\* ----------------------------------------------- sessions on one log file
\* the dates typed in the sessions: the day of the session and another day
ReloadDates == {"2024-03-10", "2024-02-29"}

ReloadServings == {1}

NextReload ==
    \/ \E date \in ReloadDates : SetCurrentDate(date)
    \/ \E food \in StoreFoods, servings \in ReloadServings : AddFoodEntry(food, servings)
    \/ UndoStore
    \/ Reload

SpecReload == InitDate /\ [][NextReload]_vars

\* ------------------------------------------------------ calorie summary
\* a NaiveDate
NaiveDate(y, m, d) == <<y, m, d>>

\* NaiveDate::parse_from_str(date, "%Y-%m-%d").expect(..), for a date that parses
parsed(date) ==
    LET ny == DigitRun(date, 4)
        afterY == SubSeq(date, ny + 1, Len(date))
        nm == DigitRun(SubSeq(afterY, 2, Len(afterY)), 2)
        afterM == SubSeq(afterY, nm + 2, Len(afterY))
        nd == DigitRun(SubSeq(afterM, 2, Len(afterM)), 2)
    IN  NaiveDate(NumberOf(SubSeq(date, 1, ny)),
                  NumberOf(SubSeq(afterY, 2, nm + 1)),
                  NumberOf(SubSeq(afterM, 2, nd + 1)))

\* the order of NaiveDate: a > b
DateAfter(a, b) ==
    \/ a[1] > b[1]
    \/ a[1] = b[1] /\ a[2] > b[2]
    \/ a[1] = b[1] /\ a[2] = b[2] /\ a[3] > b[3]

\* NaiveDate::succ_opt().unwrap()
succ_opt_NoMonthEnd(date) == NaiveDate(date[1], date[2], date[3] + 1)

succ_opt(date) ==
    IF date[3] < DaysInMonth(date[1], date[2]) THEN NaiveDate(date[1], date[2], date[3] + 1)
    ELSE IF date[2] < 12 THEN NaiveDate(date[1], date[2] + 1, 1)
    ELSE NaiveDate(date[1] + 1, 1, 1)

\* a number written in decimal
RECURSIVE Decimal(_)
Decimal(n) ==
    IF n < 10 THEN SubSeq(Digits, n + 1, n + 1)
    ELSE Decimal(n \div 10) \o SubSeq(Digits, (n % 10) + 1, (n % 10) + 1)

\* a number written with zeros in front up to the width
RECURSIVE Padded(_, _)
Padded(str, width) == IF Len(str) >= width THEN str ELSE Padded("0" \o str, width)

\* NaiveDate::format("%Y-%m-%d").to_string()
format(date) ==
    Padded(Decimal(date[1]), 4) \o "-" \o Padded(Decimal(date[2]), 2)
        \o "-" \o Padded(Decimal(date[3]), 2)

\* FoodLog::calculate_calories_for_date
calculate_calories_for_date(logs, date) ==
    IF contains_key(logs, date) THEN calculate_total_calories(get(logs, date).entries)
    ELSE 0

\* the while loop of get_calorie_summary
RECURSIVE summary_loop(_, _, _, _)
summary_loop(logs, current, end, target) ==
    IF DateAfter(current, end) THEN <<>>
    ELSE LET current_str == format(current)
             actual == calculate_calories_for_date(logs, current_str)
             difference == actual - target
         IN  <<<<current_str, actual, target, difference>>>>
                 \o summary_loop(logs, succ_opt(current), end, target)

Summary(res, tuples) == [result |-> res, results |-> tuples]

get_calorie_summary(logs, start_date, end_date, target) ==
    IF ~parse_from_str(start_date) \/ ~parse_from_str(end_date)
    THEN Summary("InvalidInput", <<>>)
    ELSE LET start == parsed(start_date)
             end == parsed(end_date)
         IN  IF DateAfter(start, end)
             THEN Summary("StartAfterEnd", <<>>)
             ELSE Summary("Ok", summary_loop(logs, start, end, target))

\* the record of a get_calorie_summary call
RangeCall(start_date, end_date, target, res) ==
    [op |-> "get_calorie_summary", start_date |-> start_date, end_date |-> end_date,
     target |-> target, result |-> res]

\* the days logged in the sessions of the summaries
RangeDates == {"2024-02-28", "2024-3-1"}

\* the bounds typed in custom_range_summary
RangeBounds == {"2024-02-28", "2024-2-29", "2024-03-01", "2024-02-30"}

\* UserProfile.target_calorie
Targets == {2000}

RangeServings == {1}

\* custom_range_summary: get_calorie_summary with the two lines typed
GetCalorieSummary(start_date, end_date, target) ==
    LET r == get_calorie_summary(daily_logs, start_date, end_date, target) IN
    /\ results' = r.results
    /\ last' = RangeCall(start_date, end_date, target, r.result)
    /\ UNCHANGED <<summary, current_date, daily_logs, saved, sessions, entries, undo_stack, snaps,
                   run, basic_foods, composite_foods, db_files>>

NextRange ==
    \/ \E date \in RangeDates : SetCurrentDate(date)
    \/ \E food \in StoreFoods, servings \in RangeServings : AddFoodEntry(food, servings)
    \/ \E start_date \in RangeBounds, end_date \in RangeBounds, target \in Targets :
          GetCalorieSummary(start_date, end_date, target)

SpecRange == InitDate /\ [][NextRange]_vars

\* ------------------------------------------ the summary loop, by steps
\* get_calorie_summary inside its while loop: the day it is at, the last
\* day and the target
Running(current, end, target) ==
    [pc |-> "loop", current |-> current, end |-> end, target |-> target]

\* get_calorie_summary up to the loop: both bounds parsed, start > end refused
SummaryCall(start_date, end_date, target) ==
    /\ summary.pc = "idle"
    /\ results' = <<>>
    /\ IF ~parse_from_str(start_date) \/ ~parse_from_str(end_date)
       THEN /\ summary' = NoSummary
            /\ last' = RangeCall(start_date, end_date, target, "InvalidInput")
       ELSE IF DateAfter(parsed(start_date), parsed(end_date))
       THEN /\ summary' = NoSummary
            /\ last' = RangeCall(start_date, end_date, target, "StartAfterEnd")
       ELSE /\ summary' = Running(parsed(start_date), parsed(end_date), target)
            /\ last' = RangeCall(start_date, end_date, target, "Running")
    /\ UNCHANGED <<current_date, daily_logs, saved, sessions, entries, undo_stack, snaps,
                   run, basic_foods, composite_foods, db_files>>

\* one test of while current <= end: a tuple for the day and on to the next
\* day, or Ok(results)
SummaryStep ==
    /\ summary.pc = "loop"
    /\ IF ~DateAfter(summary.current, summary.end)
       THEN LET current_str == format(summary.current)
                actual == calculate_calories_for_date(daily_logs, current_str)
                difference == actual - summary.target
            IN  /\ results' = Append(results, <<current_str, actual, summary.target,
                                                difference>>)
                /\ summary' = [summary EXCEPT !.current = succ_opt(@)]
                /\ last' = last
       ELSE /\ results' = results
            /\ summary' = NoSummary
            /\ last' = [last EXCEPT !.result = "Ok"]
    /\ UNCHANGED <<current_date, daily_logs, saved, sessions, entries, undo_stack, snaps,
                   run, basic_foods, composite_foods, db_files>>

\* the menu is read again only when the call has returned
NextSummary ==
    \/ \E date \in RangeDates : summary.pc = "idle" /\ SetCurrentDate(date)
    \/ \E food \in StoreFoods, servings \in RangeServings :
          summary.pc = "idle" /\ AddFoodEntry(food, servings)
    \/ \E start_date \in RangeBounds, end_date \in RangeBounds, target \in Targets :
          SummaryCall(start_date, end_date, target)
    \/ SummaryStep

\* the loop is straight-line code: once entered it goes on until it returns
SpecSummary == InitDate /\ [][NextSummary]_vars /\ WF_vars(SummaryStep)

\* ------------------------------------------------- catalog files on disk
LoadFoods == {Food("apple", 95), Food("rice", 130)}

LoadCompositeIds == {"snack", "meal"}

LoadComponentLists ==
    { << <<"apple", 2>> >>,
      << <<"snack", 3>>, <<"rice", 1>> >> }

\* the files a start of the program finds: none; files as save writes them;
\* files edited by hand, where a record names an earlier composite, names no
\* food at all, or repeats the identifier of an earlier record
CatalogFiles ==
    { NoFiles,
      DbFiles(<<Food("apple", 95), Food("rice", 130)>>,
              <<SerializedCompositeFood("snack", <<"">>, <<FoodComponent("apple", 2)>>)>>),
      DbFiles(<<Food("apple", 95)>>,
              <<SerializedCompositeFood("snack", <<"">>, <<FoodComponent("apple", 2)>>),
                SerializedCompositeFood("meal", <<"">>, <<FoodComponent("snack", 3),
                                                          FoodComponent("apple", 1)>>)>>),
      DbFiles(<<Food("apple", 95)>>,
              <<SerializedCompositeFood("meal", <<"">>, <<FoodComponent("pear", 1),
                                                          FoodComponent("apple", 1)>>)>>),
      DbFiles(<<Food("apple", 95)>>,
              <<SerializedCompositeFood("snack", <<"">>, <<FoodComponent("apple", 1)>>),
                SerializedCompositeFood("snack", <<"">>, <<FoodComponent("apple", 2)>>)>>) }

\* main: FoodDatabase::new, with the files as they are on disk
InitLoad ==
    /\ entries = DailyLogNew.entries
    /\ undo_stack = DailyLogNew.undo_stack
    /\ basic_foods = <<>>
    /\ composite_foods = <<>>
    /\ results = <<>>
    /\ current_date = Today
    /\ daily_logs = {}
    /\ saved = {}
    /\ sessions = 1
    /\ db_files \in CatalogFiles
    /\ summary = NoSummary
    /\ last = Call("new", "", 0, 0, "Ok", NoAction, "")
    /\ snaps = <<>>
    /\ run = NewRun

\* main: food_db.load(), once, right after FoodDatabase::new
LoadCatalog ==
    LET db == database_load(db_files) IN
    /\ last.op = "new"
    /\ basic_foods' = db.basic_foods
    /\ composite_foods' = db.composite_foods
    /\ last' = CatalogCall("load", "", <<>>, db.result)
    /\ UNCHANGED <<summary, entries, undo_stack, snaps, run, results, current_date, daily_logs, saved,
                   sessions, db_files>>

\* the program is started once more: FoodDatabase::new; the history keeps
\* the catalog the program had in memory when it ended
StartAgain ==
    /\ last.op # "new"
    /\ sessions < MaxSessions
    /\ sessions' = sessions + 1
    /\ basic_foods' = <<>>
    /\ composite_foods' = <<>>
    /\ last' = [left_basic |-> basic_foods, left_composite |-> composite_foods]
                  @@ Call("new", "", 0, 0, "Ok", NoAction, "")
    /\ UNCHANGED <<summary, entries, undo_stack, snaps, run, results, current_date, daily_logs, saved,
                   db_files>>

NextLoad ==
    \/ LoadCatalog
    \/ \E food \in LoadFoods : last.op # "new" /\ AddBasicFood(food)
    \/ \E identifier \in LoadCompositeIds, component_ids \in LoadComponentLists :
          last.op # "new" /\ AddCompositeFood(identifier, <<"">>, component_ids)
    \/ StartAgain

SpecLoad == InitLoad /\ [][NextLoad]_vars

\* ------------------------------------------------ writes that can fail
\* FoodLog::save as the caller sees it: the file after the call and the
\* result, when fs::write (or create_dir_all) succeeds and when it fails
save_result(logs, file, written) ==
    IF written THEN [saved |-> save(logs), result |-> "Ok"]
    ELSE [saved |-> file, result |-> "WriteFailed"]

\* FoodDatabase::save as the caller sees it: basic_foods.yaml is written
\* first, composite_foods.yaml second, and the first failure returns
database_save_result(bf, cf, files, files_written) ==
    IF files_written = 2 THEN [db_files |-> database_save(bf, cf), result |-> "Ok"]
    ELSE IF files_written = 1
    THEN [db_files |-> DbFiles(bf, files.composite_foods), result |-> "WriteFailed"]
    ELSE [db_files |-> files, result |-> "WriteFailed"]

\* how many of the two catalog files a save gets written
FilesWritten == {0, 1, 2}

FaultFoods == {Food("apple", 95)}

FaultServings == {1}

FaultComponentLists == { << <<"apple", 2>> >>, << <<"pear", 1>> >> }

\* FoodLog::add_food_entry, with a save that succeeds or fails
AddFoodEntryIo(food, servings, written) ==
    LET r == add_food_entry(current_date, daily_logs, saved, food, servings)
        w == save_result(r.daily_logs, saved, written)
    IN
    /\ StoredActions(daily_logs) < MaxStored
    /\ current_date' = r.current_date
    /\ daily_logs' = r.daily_logs
    /\ saved' = w.saved
    /\ last' = Call("add_food_entry", food.identifier, servings,
                    food.calories_per_serving, w.result, NoAction, "")
    /\ UNCHANGED <<summary, entries, undo_stack, snaps, run, basic_foods, composite_foods, results,
                   sessions, db_files>>

\* FoodLog::remove_food_entry, with a save that succeeds or fails
RemoveFoodEntryIo(food_id, written) ==
    LET r == remove_food_entry(current_date, daily_logs, saved, food_id)
        w == IF r.result = "Ok" THEN save_result(r.daily_logs, saved, written)
             ELSE [saved |-> saved, result |-> r.result]
    IN
    /\ StoredActions(daily_logs) < MaxStored
    /\ current_date' = r.current_date
    /\ daily_logs' = r.daily_logs
    /\ saved' = w.saved
    /\ last' = Call("remove_food_entry", food_id, 0, 0, w.result, NoAction, "")
    /\ UNCHANGED <<summary, entries, undo_stack, snaps, run, basic_foods, composite_foods, results,
                   sessions, db_files>>

\* FoodLog::undo, with a save that succeeds or fails
UndoStoreIo(written) ==
    LET r == store_undo(current_date, daily_logs, saved)
        w == IF r.result = "Ok" THEN save_result(r.daily_logs, saved, written)
             ELSE [saved |-> saved, result |-> r.result]
    IN
    /\ current_date' = r.current_date
    /\ daily_logs' = r.daily_logs
    /\ saved' = w.saved
    /\ last' = Call("store_undo", "", 0, 0, w.result, NoAction, last.op)
    /\ UNCHANGED <<summary, entries, undo_stack, snaps, run, basic_foods, composite_foods, results,
                   sessions, db_files>>

\* FoodDatabase::add_basic_food, with a save that succeeds or fails
AddBasicFoodIo(food, files_written) ==
    LET db == add_basic_food(basic_foods, composite_foods, food)
        w == IF db.result = "Ok"
             THEN database_save_result(db.basic_foods, db.composite_foods, db_files,
                                       files_written)
             ELSE [db_files |-> db_files, result |-> db.result]
    IN
    /\ basic_foods' = db.basic_foods
    /\ composite_foods' = db.composite_foods
    /\ db_files' = w.db_files
    /\ last' = Call("add_basic_food", food.identifier, 0, 0, w.result, NoAction, "")
    /\ UNCHANGED <<summary, entries, undo_stack, snaps, run, results, current_date, daily_logs, saved,
                   sessions>>

\* FoodDatabase::add_composite_food, with a save that succeeds or fails
AddCompositeFoodIo(identifier, keywords, component_ids, files_written) ==
    LET db == add_composite_food(basic_foods, composite_foods, identifier, keywords,
                                 component_ids)
        w == IF db.result = "Ok"
             THEN database_save_result(db.basic_foods, db.composite_foods, db_files,
                                       files_written)
             ELSE [db_files |-> db_files, result |-> db.result]
    IN
    /\ basic_foods' = db.basic_foods
    /\ composite_foods' = db.composite_foods
    /\ db_files' = w.db_files
    /\ last' = CatalogCall("add_composite_food", identifier, component_ids, w.result)
    /\ UNCHANGED <<summary, entries, undo_stack, snaps, run, results, current_date, daily_logs, saved,
                   sessions>>

NextFault ==
    \/ \E date \in ReloadDates : SetCurrentDate(date)
    \/ \E food \in FaultFoods, servings \in FaultServings, written \in BOOLEAN :
          AddFoodEntryIo(food, servings, written)
    \/ \E food \in FaultFoods, written \in BOOLEAN : RemoveFoodEntryIo(food.identifier, written)
    \/ \E written \in BOOLEAN : UndoStoreIo(written)
    \/ \E food \in FaultFoods, files_written \in FilesWritten : AddBasicFoodIo(food, files_written)
    \/ \E component_ids \in FaultComponentLists, files_written \in FilesWritten :
          AddCompositeFoodIo("meal", <<"">>, component_ids, files_written)

SpecFault == InitDate /\ [][NextFault]_vars

\* ------------------------------------------- composite foods in the log
MealFoods == {Food("apple", 95), Food("peanut_butter", 190)}

\* component lists with two foods and with the same food twice
MealComponentLists ==
    { << <<"apple", 1>>, <<"peanut_butter", 2>> >>,
      << <<"apple", 1>>, <<"apple", 2>> >> }

\* servings typed when a food is logged
MealServings == {0 - 1, 2}

NextMeal ==
    \/ \E food \in MealFoods : AddBasicFood(food)
    \/ \E component_ids \in MealComponentLists :
          AddCompositeFood("snack", <<"">>, component_ids)
    \/ \E selected_food_id \in FoodIds \cup CompositeIds, servings \in MealServings :
          AddFoodToLog(selected_food_id, servings)
    \/ Undo

SpecMeal == InitCat /\ [][NextMeal]_vars

\* ----------------------------------------------------------------- claims
SetOf(es) == {es[i] : i \in 1..Len(es)}
Top(st) == st[Len(st)]
Without(es, id) == SelectSeq(es, LAMBDA e : e.food_id # id)

\* C1: add_entry followed at once by undo leaves the entries exactly as they
\* were before the add, for a new entry and for a merge alike.
C1_AddThenUndoRestores ==
    [][(last.op = "add" /\ last'.op = "undo")
         => (last'.result = "Ok" /\ entries' = Top(snaps))]_vars

\* C2: remove_entry(id) followed at once by undo leaves exactly one entry for
\* id, with the removed entry's servings and rate, and every other entry as
\* it was.
C2_RemoveThenUndoRestores ==
    [][(last.op = "remove" /\ last.result = "Ok" /\ last'.op = "undo")
         => LET before == Top(snaps)
                id == last.food_id
                e == before[Position(before, id)]
            IN  /\ last'.result = "Ok"
                /\ Cardinality({i \in 1..Len(entries') : entries'[i].food_id = id}) = 1
                /\ \E i \in 1..Len(entries') : entries'[i] = e
                /\ Without(entries', id) = Without(before, id)]_vars

C2_Witness ==
    /\ last.op = "undo" /\ last.after = "remove" /\ last.result = "Ok"
    /\ Len(entries) = 2
    /\ entries[2] = last.popped.entry

\* C3: undo is LIFO: after n successful mutations from an empty undo stack,
\* the k-th of n consecutive undo calls succeeds and brings back the entries
\* (as a set) from before the (n-k+1)-th mutation, and the (n+1)-th fails
\* with nothing to undo.
C3_UndoIsLifo ==
    [][(run.valid /\ last'.op = "undo")
         => IF run.k < run.n
            THEN last'.result = "Ok" /\ SetOf(entries') = SetOf(Top(snaps))
            ELSE last'.result = "NoActionsToUndo" /\ entries' = entries]_vars

\* C4: no two entries of a log have the same food_id.
C4_UniqueFoodIds == UniqueIds(entries)

C4_Witness ==
    /\ last.op = "undo" /\ last.result = "Ok" /\ last.popped.tag = "Remove"
    /\ Len(entries) = 2
    /\ Len(undo_stack) = 1 /\ undo_stack[1].tag = "Add" /\ undo_stack[1].prev_servings # 0

\* C5: add_entry succeeds and pushes exactly one undo action: on a merge
\* Add(id, p) with the entry's servings becoming p + servings in place, else
\* Add(id, 0) with the new entry (id, servings, rate) appended; all other
\* entries are unchanged.
C5_AddEntryEffect ==
    [][last'.op = "add"
         => LET id == last'.food_id
                pos == Position(entries, id)
            IN  /\ last'.result = "Ok"
                /\ Len(undo_stack') = Len(undo_stack) + 1
                /\ Pop(undo_stack') = undo_stack
                /\ IF pos # 0
                   THEN /\ Top(undo_stack') = UndoAdd(id, entries[pos].servings)
                        /\ Len(entries') = Len(entries)
                        /\ \A i \in 1..Len(entries) :
                              entries'[i] = IF i = pos
                                            THEN LogEntry(id, entries[pos].servings + last'.servings,
                                                          entries[pos].calories)
                                            ELSE entries[i]
                   ELSE /\ Top(undo_stack') = UndoAdd(id, 0)
                        /\ entries' = entries \o <<LogEntry(id, last'.servings, last'.calories)>>]_vars

C5_Witness ==
    /\ last.op = "add" /\ last.result = "Ok"
    /\ Len(entries) = 2 /\ entries[1].food_id = last.food_id
    /\ Top(undo_stack).prev_servings > 0
    /\ last.servings > 0

\* C6: every entry has servings > 0: a call of add_entry never leaves an
\* entry with non-positive servings in a log that had none.
C6_ServingsStayPositive ==
    [][(\A i \in 1..Len(entries) : entries[i].servings > 0)
         => (\A i \in 1..Len(entries') : entries'[i].servings > 0)]_vars

C8_UndoOnEmptyStack ==
    /\ undo_stack = <<>>
    /\ [][(last'.op = "undo" /\ undo_stack = <<>>)
            => /\ last'.result = "NoActionsToUndo"
               /\ entries' = entries
               /\ undo_stack' = <<>>]_vars

C8_Witness ==
    /\ last.op = "undo" /\ last.after = "new" /\ last.result = "NoActionsToUndo"
    /\ entries # <<>> /\ undo_stack = <<>>

\* C9: the rate stored in an entry never changes while the entry stays in
\* the log, not even when add_entry merges a food value carrying another
\* rate, and a change of the catalog changes neither the entries nor their
\* total calories.
C9_RateIsSnapshot ==
    [][/\ \A i \in 1..Len(entries), j \in 1..Len(entries') :
             entries[i].food_id = entries'[j].food_id
                => entries[i].calories = entries'[j].calories
       /\ last'.op \in {"add_basic_food", "add_composite_food"}
             => /\ entries' = entries
                /\ calculate_total_calories(entries') = calculate_total_calories(entries)]_vars

C9_Witness ==
    /\ last.op = "add" /\ last.food_id = "apple"
    /\ \E i \in 1..Len(entries) :
          /\ entries[i].food_id = "apple"
          /\ entries[i].calories # last.calories
          /\ entries[i].servings = 3
    /\ composite_foods # <<>>

\* C10: logging s servings of a composite food C, one add per flattened
\* component with s * quantity, into a log with no entry for any component
\* of C raises the total calories by exactly s * get_calories(C).
ComponentIds(comps) == {comps[i].food.identifier : i \in 1..Len(comps)}

C10_CompositeLoggedTotal ==
    [][last'.op = "add_composite"
         => LET comps == composite_foods[Find(composite_foods, last'.food_id)].components IN
            (\A i \in 1..Len(entries) : entries[i].food_id \notin ComponentIds(comps))
               => calculate_total_calories(entries')
                     = calculate_total_calories(entries)
                          + last'.servings * get_calories(comps)]_vars

\* the session of the example: snack = apple x1 + peanut_butter x2 is 475,
\* and 2 servings of it logged into an empty log total 950
C10_Witness ==
    /\ last.op = "add_composite" /\ last.food_id = "snack" /\ last.servings = 2
    /\ last.calories = 475
    /\ entries = <<LogEntry("apple", 2, 95), LogEntry("peanut_butter", 4, 190)>>
    /\ calculate_total_calories(entries) = 950

\* -------------------------------------------------------- catalog claims
BasicIds(bf) == {bf[i].identifier : i \in 1..Len(bf)}
NewComposite == composite_foods'[Len(composite_foods')]
RefIds(refs) == {refs[i][1] : i \in 1..Len(refs)}

\* C11: add_basic_food fails as a duplicate whenever its identifier is
\* already that of a basic food or of a composite food, and then leaves the
\* catalog unchanged; otherwise it inserts the food.
C11_AddBasicFoodNamespace ==
    [][last'.op = "add_basic_food"
         => IF last'.food_id \in Identifiers(basic_foods, composite_foods)
            THEN /\ last'.result = "AlreadyExists"
                 /\ basic_foods' = basic_foods
                 /\ composite_foods' = composite_foods
            ELSE /\ last'.result = "Ok"
                 /\ composite_foods' = composite_foods
                 /\ Pop(basic_foods') = basic_foods
                 /\ Top(basic_foods').identifier = last'.food_id]_vars

\* C12: identifiers are unique across the whole catalog (no two basic foods,
\* no two composite foods, no basic and composite food share one), and
\* add_composite_food fails as a duplicate when its identifier is already
\* that of any food.
C12_CatalogIdsUnique ==
    /\ [](/\ \A i, j \in 1..Len(basic_foods) :
               basic_foods[i].identifier = basic_foods[j].identifier => i = j
          /\ \A i, j \in 1..Len(composite_foods) :
               composite_foods[i].identifier = composite_foods[j].identifier => i = j
          /\ \A i \in 1..Len(basic_foods), j \in 1..Len(composite_foods) :
               basic_foods[i].identifier # composite_foods[j].identifier)
    /\ [][(/\ last'.op = "add_composite_food"
           /\ last'.food_id \in Identifiers(basic_foods, composite_foods))
            => last'.result = "AlreadyExists"]_vars

\* C13: identifiers are a case-insensitive key: adding a food whose
\* identifier differs from an existing one in letter case only is rejected
\* as a duplicate, and a component reference resolves whatever its case.
LoweredIds(bf, cf) == {to_lowercase(id) : id \in Identifiers(bf, cf)}

C13_IdsCaseInsensitive ==
    [][/\ (/\ last'.op \in {"add_basic_food", "add_composite_food"}
           /\ to_lowercase(last'.food_id) \in LoweredIds(basic_foods, composite_foods))
          => last'.result = "AlreadyExists"
       /\ (/\ last'.op = "add_composite_food"
           /\ \A id \in RefIds(last'.component_ids) :
                 to_lowercase(id) \in LoweredIds(basic_foods, composite_foods))
          => last'.result # "NotFound"]_vars

C15_FlatteningAssociative ==
    [][(/\ last'.op = "add_composite_food" /\ last'.result = "Ok"
        /\ Len(last'.component_ids) = 1)
         => \A j \in 1..Len(composite_foods) :
               composite_foods[j].identifier = last'.component_ids[1][1]
                  => LET B == composite_foods[j].components
                         q == last'.component_ids[1][2]
                     IN  /\ Len(NewComposite.components) = Len(B)
                         /\ \A k \in 1..Len(B) :
                               /\ NewComposite.components[k].food = B[k].food
                               /\ NewComposite.components[k].quantity
                                     = B[k].quantity * q]_vars

\* C16: for a composite food built from references r1..rn with quantities
\* q1..qn, get_calories is the sum over the stored components of rate times
\* quantity, and equals the sum of qi * calories(ri) taken over the foods the
\* catalog holds under the identifiers ri when the composite is built.
RECURSIVE StoredSum(_, _)
StoredSum(comps, k) ==
    IF k = 0 THEN 0
    ELSE StoredSum(comps, k - 1)
         + comps[k].food.calories_per_serving * comps[k].quantity

\* the calories of the foods the catalog holds under an identifier
CaloriesOf(bf, cf, id) ==
    {bf[i].calories_per_serving : i \in {i \in 1..Len(bf) : bf[i].identifier = id}}
    \cup {get_calories(cf[i].components) : i \in {i \in 1..Len(cf) : cf[i].identifier = id}}

RECURSIVE RefTotals(_, _, _)
RefTotals(bf, cf, refs) ==
    IF refs = <<>> THEN {0}
    ELSE {refs[1][2] * c + t : c \in CaloriesOf(bf, cf, refs[1][1]),
                               t \in RefTotals(bf, cf, Tail(refs))}

C16_CompositeCalories ==
    [][(last'.op = "add_composite_food" /\ last'.result = "Ok")
         => /\ get_calories(NewComposite.components)
                 = StoredSum(NewComposite.components, Len(NewComposite.components))
            /\ RefTotals(basic_foods, composite_foods, last'.component_ids)
                 = {get_calories(NewComposite.components)}]_vars

\* C17: every component of every stored composite food is a basic food of
\* the catalog, never a composite food, and a composite whose component list
\* names its own identifier is not built from itself: with no food of that
\* name in the catalog the call fails and stores nothing.
C17_ComponentsAreBasic ==
    /\ [](\A j \in 1..Len(composite_foods) :
            \A k \in 1..Len(composite_foods[j].components) :
               LET food == composite_foods[j].components[k].food IN
               /\ food \in SetOf(basic_foods)
               /\ "components" \notin DOMAIN food)
    /\ [][(/\ last'.op = "add_composite_food"
           /\ last'.food_id \in RefIds(last'.component_ids)
           /\ last'.food_id \notin Identifiers(basic_foods, composite_foods))
            => /\ last'.result = "NotFound"
               /\ composite_foods' = composite_foods]_vars

\* meal names itself while snack, a composite of two basic foods, is stored
C17_Witness ==
    /\ last.op = "add_composite_food" /\ last.food_id = "meal"
    /\ last.component_ids = << <<"meal", 1>>, <<"apple", 1>> >>
    /\ last.result = "NotFound"
    /\ Len(composite_foods) = 1 /\ Len(composite_foods[1].components) = 2
    /\ "apple" \in BasicIds(basic_foods)

\* C18: search_foods(p) returns exactly the foods, basic and composite, whose
\* identifier or one of whose keywords starts with p, letter case ignored,
\* each once, paired with its calories; a term matching nothing returns the
\* empty list; the catalog is unchanged.
Hit(food, term) ==
    \E str \in {food.identifier} \cup SetOf(food.keywords) :
       /\ Len(term) <= Len(str)
       /\ \A n \in 1..Len(term) :
             LowerChar(SubSeq(str, n, n)) = LowerChar(SubSeq(term, n, n))

C18_SearchFoods ==
    [][last'.op = "search_foods"
         => LET term == last'.food_id
                B == {i \in 1..Len(basic_foods) : Hit(basic_foods[i], term)}
                C == {j \in 1..Len(composite_foods) : Hit(composite_foods[j], term)}
                pairs == {<<basic_foods[i].identifier,
                            basic_foods[i].calories_per_serving>> : i \in B}
                         \cup {<<composite_foods[j].identifier,
                                 get_calories(composite_foods[j].components)>> : j \in C}
            IN  /\ Len(results') = Cardinality(B) + Cardinality(C)
                /\ \A pair \in pairs \cup SetOf(results') :
                      Cardinality({n \in 1..Len(results') : results'[n] = pair})
                         = Cardinality({i \in B :
                              <<basic_foods[i].identifier,
                                basic_foods[i].calories_per_serving>> = pair})
                           + Cardinality({j \in C :
                              <<composite_foods[j].identifier,
                                get_calories(composite_foods[j].components)>> = pair})
                /\ basic_foods' = basic_foods
                /\ composite_foods' = composite_foods]_vars

\* "AP" finds apple and Apple by name and meal by its keyword "apple pie"
C18_Witness ==
    /\ last.op = "search_foods" /\ last.food_id = "AP"
    /\ Len(results) = 3
    /\ results[3][1] = "meal"
    /\ Len(composite_foods) = 2

\* ---------------------------------------------------------- store claims
\* the YYYY-MM-DD form of a date of the calendar: four digits, two digits
\* and two digits between hyphens
IsIsoDate(str) ==
    /\ Len(str) = 10
    /\ \A n \in {1, 2, 3, 4, 6, 7, 9, 10} : IsDigit(SubSeq(str, n, n))
    /\ SubSeq(str, 5, 5) = "-" /\ SubSeq(str, 8, 8) = "-"
    /\ LET m == NumberOf(SubSeq(str, 6, 7))
           d == NumberOf(SubSeq(str, 9, 10))
       IN  m \in 1..12 /\ d \in 1..DaysInMonth(NumberOf(SubSeq(str, 1, 4)), m)

\* C19: set_current_date fails with an invalid-date error for every string
\* that is not the YYYY-MM-DD form of a date of the calendar, and then the
\* current date and the logs are unchanged.
C19_InvalidDateRejected ==
    [][(last'.op = "set_current_date" /\ ~IsIsoDate(last'.food_id))
         => /\ last'.result = "InvalidInput"
            /\ current_date' = current_date
            /\ daily_logs' = daily_logs]_vars

\* C20: a successful set_current_date(date) makes date the current date,
\* creates an empty log (no entries, empty undo stack) for it only if it has
\* none, leaves every existing log unchanged in entries and undo stack, and
\* the store never holds two logs for one date.
C20_SetCurrentDateEffect ==
    /\ [](\A l1, l2 \in daily_logs : l1.date = l2.date => l1 = l2)
    /\ [][(last'.op = "set_current_date" /\ last'.result = "Ok")
            => /\ current_date' = last'.food_id
               /\ IF \E l \in daily_logs : l.date = last'.food_id
                  THEN daily_logs' = daily_logs
                  ELSE /\ daily_logs \subseteq daily_logs'
                       /\ daily_logs' \ daily_logs
                             = {[date |-> last'.food_id, entries |-> <<>>,
                                 undo_stack |-> <<>>]}]_vars

\* back on a date whose log holds an entry and an undo action, beside
\* another date's log
C20_Witness ==
    /\ last.op = "set_current_date" /\ last.result = "Ok"
    /\ Cardinality(daily_logs) >= 2
    /\ \E l \in daily_logs :
          /\ l.date = current_date
          /\ l.entries # <<>>
          /\ l.undo_stack # <<>>

\* ------------------------------------------------------ more log claims
\* C27: undo of a popped Add(id, prev): with prev > 0 the entry for id gets
\* servings = prev; with prev = 0 the entry for id is deleted; with no entry
\* for id the call fails with an error and the entries are left unchanged.
C27_UndoOfAdd ==
    [][(last'.op = "undo" /\ undo_stack # <<>> /\ Top(undo_stack).tag = "Add")
         => LET action == Top(undo_stack)
                pos == Position(entries, action.food_id)
            IN  IF pos = 0
                THEN /\ last'.result = "InvalidUndoAction"
                     /\ entries' = entries
                ELSE /\ last'.result = "Ok"
                     /\ action.prev_servings > 0
                           => /\ Len(entries') = Len(entries)
                              /\ \A i \in 1..Len(entries) :
                                    entries'[i] = IF i = pos
                                                  THEN LogEntry(action.food_id,
                                                                action.prev_servings,
                                                                entries[pos].calories)
                                                  ELSE entries[i]
                     /\ action.prev_servings = 0
                           => /\ Len(entries') = Len(entries) - 1
                              /\ \A i \in 1..Len(entries') :
                                    entries'[i] = IF i < pos THEN entries[i]
                                                  ELSE entries[i + 1]]_vars

\* the popped Add names a food that has no entry, while another entry stays
C27_Witness ==
    /\ last.op = "undo" /\ last.result = "InvalidUndoAction"
    /\ last.popped.tag = "Add"
    /\ Len(entries) = 1 /\ entries[1].food_id # last.popped.food_id

C30_UndoTargetPresent == last.result # "InvalidUndoAction"

\* ---------------------------------------------------- more catalog claims
\* C29: add_composite_food keeps its components in the order of the
\* references and never merges them: the stored components are, reference
\* after reference, one pair for a reference to a basic food and the scaled
\* pairs of the referenced composite food otherwise, so a basic food reached
\* through several references appears once per reference.
Expansions(bf, cf, ref) ==
    { <<[food |-> bf[i], quantity |-> ref[2]]>> :
         i \in {i \in 1..Len(bf) : bf[i].identifier = ref[1]} }
    \cup { [k \in 1..Len(cf[j].components) |->
              [food |-> cf[j].components[k].food,
               quantity |-> cf[j].components[k].quantity * ref[2]]] :
           j \in {j \in 1..Len(cf) : cf[j].identifier = ref[1]} }

RECURSIVE InRefOrder(_, _, _, _)
InRefOrder(bf, cf, refs, comps) ==
    IF refs = <<>> THEN comps = <<>>
    ELSE \E e \in Expansions(bf, cf, refs[1]) :
            /\ Len(e) <= Len(comps)
            /\ SubSeq(comps, 1, Len(e)) = e
            /\ InRefOrder(bf, cf, Tail(refs), SubSeq(comps, Len(e) + 1, Len(comps)))

C29_ComponentsNotMerged ==
    [][(last'.op = "add_composite_food" /\ last'.result = "Ok")
         => InRefOrder(basic_foods, composite_foods, last'.component_ids,
                       NewComposite.components)]_vars

\* snack = meal x1 + apple x1 with meal = apple x1 + Apple x2: apple is
\* stored twice, before and after Apple
C29_Witness ==
    /\ last.op = "add_composite_food" /\ last.result = "Ok" /\ last.food_id = "snack"
    /\ last.component_ids = << <<"meal", 1>>, <<"apple", 1>> >>
    /\ Len(composite_foods) = 2
    /\ Len(composite_foods[2].components) = 3
    /\ composite_foods[2].components[1].food = composite_foods[2].components[3].food

\* ------------------------------------------------------ more store claims
HasLog(logs, date) == \E l \in logs : l.date = date

\* C21: remove_food_entry and undo of the store fail with "no log found"
\* exactly when the current date has no log; add_food_entry never fails so
\* and leaves a log for the current date, as does a successful
\* set_current_date, and the current date never loses its log while the
\* FoodLog lives.
C21_NoLogForDate ==
    [][/\ last'.op \in {"remove_food_entry", "store_undo"}
          => (last'.result = "NoLogFound" <=> ~HasLog(daily_logs, current_date))
       /\ last'.op = "add_food_entry"
          => (last'.result = "Ok" /\ HasLog(daily_logs', current_date'))
       /\ (last'.op = "set_current_date" /\ last'.result = "Ok")
          => HasLog(daily_logs', current_date')
       /\ (HasLog(daily_logs, current_date) /\ current_date' = current_date
             /\ last'.op # "load")
          => HasLog(daily_logs', current_date')]_vars

\* undo on the day of the session, which has no log although another day has
C21_Witness ==
    /\ last.op = "store_undo" /\ last.result = "NoLogFound"
    /\ current_date = Today
    /\ daily_logs # {} /\ ~HasLog(daily_logs, current_date)

\* C24: after every successful call that changes the logs in memory
\* (add_food_entry, remove_food_entry, undo, and set_current_date when it
\* creates a log) the saved file holds exactly the dates and entries of the
\* logs in memory.
C24_SavedMatchesMemory ==
    [][(/\ last'.op \in {"add_food_entry", "remove_food_entry", "store_undo",
                         "set_current_date"}
        /\ last'.result = "Ok"
        /\ daily_logs' # daily_logs)
         => saved' = {[date |-> l.date, entries |-> l.entries] : l \in daily_logs'}]_vars

\* C25: undo stacks are never saved: after save followed by load every
\* date's entries are the saved ones and every undo stack is empty, so the
\* mutations made before can no longer be undone: undo on a loaded log fails
\* with nothing to undo and changes nothing.
C25_UndoStacksNotSaved ==
    [][/\ last'.op = "load"
          => /\ {[date |-> l.date, entries |-> l.entries] : l \in daily_logs'} = saved
             /\ \A l \in daily_logs' : l.undo_stack = <<>>
             /\ \A l1, l2 \in daily_logs' : l1.date = l2.date => l1 = l2
       /\ (last.op = "load" /\ last'.op = "store_undo" /\ HasLog(daily_logs, current_date))
          => /\ last'.result = "NoActionsToUndo"
             /\ daily_logs' = daily_logs]_vars

\* a food added in the first session can no longer be undone in the second
C25_Witness ==
    /\ last.op = "store_undo" /\ last.after = "load"
    /\ last.result = "NoActionsToUndo"
    /\ sessions = 2
    /\ \E l \in daily_logs :
          /\ l.date = current_date
          /\ l.entries = <<LogEntry("apple", 1, 95)>>

\* ------------------------------------------------------- summary claims
\* the day of the year of a date
RECURSIVE DaysBefore(_, _)
DaysBefore(y, m) == IF m = 1 THEN 0 ELSE DaysBefore(y, m - 1) + DaysInMonth(y, m - 1)

DayOfYear(date) == DaysBefore(date[1], date[2]) + date[3]

\* the logs kept for a day of the calendar
LogsOfDay(logs, date) == {l \in logs : parse_from_str(l.date) /\ parsed(l.date) = date}

\* C22: for dates start <= end in the YYYY-MM-DD form get_calorie_summary
\* returns one tuple for each day from start to end, in ascending order of
\* the days, each with the total calories of the log of that day, or 0 when
\* the day has no log, the target given, and actual - target; over a range
\* without logs every tuple has 0 and -target.
C22_OneTuplePerDay ==
    [][(/\ last'.op = "get_calorie_summary"
        /\ IsIsoDate(last'.start_date) /\ IsIsoDate(last'.end_date)
        /\ ~DateAfter(parsed(last'.start_date), parsed(last'.end_date)))
         => LET start == parsed(last'.start_date)
                end == parsed(last'.end_date)
            IN  /\ last'.result = "Ok"
                /\ start[1] = end[1]
                /\ Len(results') = DayOfYear(end) - DayOfYear(start) + 1
                /\ \A n \in 1..Len(results') :
                      LET tuple == results'[n]
                          day == parsed(tuple[1])
                          kept == LogsOfDay(daily_logs, day)
                      IN  /\ IsIsoDate(tuple[1])
                          /\ day[1] = start[1]
                          /\ DayOfYear(day) = DayOfYear(start) + n - 1
                          /\ IF kept = {} THEN tuple[2] = 0
                             ELSE \E l \in kept :
                                     tuple[2] = calculate_total_calories(l.entries)
                          /\ tuple[3] = last'.target
                          /\ tuple[4] = tuple[2] - tuple[3]
                /\ (\A l \in daily_logs :
                       ~parse_from_str(l.date) \/ DateAfter(start, parsed(l.date))
                           \/ DateAfter(parsed(l.date), end))
                     => \A n \in 1..Len(results') :
                           results'[n][2] = 0 /\ results'[n][4] = 0 - last'.target]_vars

\* C23: get_calorie_summary fails with the invalid-date error when a bound
\* is not the YYYY-MM-DD form of a date, and with the range error when both
\* are and start is after end, with no tuple in either case; start = end is
\* accepted and gives one tuple.
C23_SummaryErrors ==
    [][last'.op = "get_calorie_summary"
         => LET valid == IsIsoDate(last'.start_date) /\ IsIsoDate(last'.end_date) IN
            /\ ~valid => (last'.result = "InvalidInput" /\ results' = <<>>)
            /\ (valid /\ DateAfter(parsed(last'.start_date), parsed(last'.end_date)))
                 => (last'.result = "StartAfterEnd" /\ results' = <<>>)
            /\ (valid /\ last'.start_date = last'.end_date)
                 => (last'.result = "Ok" /\ Len(results') = 1)]_vars

\* -------------------------------------------------- catalog file claims
\* the components of a record as add_composite_food takes them
RecordRefs(comps) == [i \in 1..Len(comps) |-> <<comps[i].food_id, comps[i].quantity>>]

\* add_composite_food called on each record in the order of the file
RECURSIVE AddAll(_, _, _)
AddAll(bf, cf, records) ==
    IF records = <<>> THEN cf
    ELSE AddAll(bf,
                add_composite_food(bf, cf, records[1].identifier, records[1].keywords,
                                   RecordRefs(records[1].components)).composite_foods,
                Tail(records))

\* C26: loading the composite records of the file gives the composite foods
\* that add_composite_food gives when called on each record in file order: a
\* component that names an earlier composite is expanded into its scaled
\* components, and a component that names no food is handled as
\* add_composite_food handles it.
C26_LoadAsAddComposite ==
    [][last'.op = "load"
         => /\ basic_foods' = db_files.basic_foods
            /\ composite_foods' = AddAll(basic_foods', <<>>, db_files.composite_foods)]_vars

\* ------------------------------------------------------- frame claims
\* the logs of the dates other than the given one
OtherLogs(logs, date) == {l \in logs : l.date # date}

\* C31: add_food_entry, remove_food_entry and undo of the FoodLog read and
\* change only the log of the current date: the entries and undo stacks of
\* all other dates stay as they are; set_current_date leaves every log it
\* finds untouched, so after switching away and back undo still takes the
\* last action of that log's own stack.
C31_UndoScopedPerDate ==
    [][/\ last'.op \in {"add_food_entry", "remove_food_entry", "store_undo"}
          => /\ current_date' = current_date
             /\ OtherLogs(daily_logs', current_date) = OtherLogs(daily_logs, current_date)
       /\ last'.op = "set_current_date" => daily_logs \subseteq daily_logs'
       /\ (last'.op = "store_undo" /\ HasLog(daily_logs, current_date))
          => LET log == get(daily_logs, current_date) IN
             IF log.undo_stack = <<>>
             THEN last'.result = "NoActionsToUndo" /\ daily_logs' = daily_logs
             ELSE get(daily_logs', current_date).undo_stack
                     = SubSeq(log.undo_stack, 1, Len(log.undo_stack) - 1)]_vars

\* back on a date after a visit to another date where a food was added, the
\* add made before the visit is undone; the other date keeps its action
C31_Witness ==
    /\ last.op = "store_undo" /\ last.after = "set_current_date"
    /\ last.result = "Ok"
    /\ HasLog(daily_logs, current_date)
    /\ get(daily_logs, current_date).entries = <<>>
    /\ \E l \in daily_logs :
          l.date # current_date /\ Len(l.undo_stack) = 1 /\ Len(l.entries) = 1

\* C32: when add_food_entry, remove_food_entry or undo of the FoodLog, or
\* add_basic_food or add_composite_food of the FoodDatabase, returns an
\* error, the logs or the catalog in memory are as they were before the
\* call, also when it is the write of the file that failed.
C32_ErrorLeavesMemory ==
    [][/\ (/\ last'.op \in {"add_food_entry", "remove_food_entry", "store_undo"}
           /\ last'.result # "Ok")
          => (daily_logs' = daily_logs /\ current_date' = current_date)
       /\ (/\ last'.op \in {"add_basic_food", "add_composite_food"}
           /\ last'.result # "Ok")
          => (basic_foods' = basic_foods /\ composite_foods' = composite_foods)]_vars

\* ------------------------------------------------ composite log claims
\* C33: logging a composite food with k flattened components makes k
\* add_entry calls and pushes k undo actions, components of the same basic
\* food merging into one entry; each undo then reverts one component, the
\* last one first, so that k undos bring the log back to what it was before
\* the composite was logged.
C33_CompositeUndoneStepwise ==
    [][/\ last'.op = "add_composite"
          => LET comps == composite_foods[Find(composite_foods, last'.food_id)].components IN
             /\ Len(undo_stack') = Len(undo_stack) + Len(comps)
             /\ Len(snaps') = Len(snaps) + Len(comps)
             /\ snaps'[Len(snaps) + 1] = entries
             /\ UniqueIds(entries) => UniqueIds(entries')
       /\ (last'.op = "undo" /\ undo_stack # <<>>)
          => /\ last'.result = "Ok"
             /\ Len(undo_stack') = Len(undo_stack) - 1
             /\ entries' = Top(snaps)]_vars

\* C34: get_calorie_summary only reads and always returns: for bounds
\* start <= end the loop visits each day from start to end once and then
\* ends, and no step of the call creates a log, changes the current date,
\* the entries or undo stacks of any log, or the file.
C34_SummaryReadsAndReturns ==
    /\ [][(/\ last'.op = "get_calorie_summary"
           /\ <<last, summary, results>>' # <<last, summary, results>>)
            => /\ UNCHANGED <<current_date, daily_logs, saved>>
               /\ Len(results') = Len(results) + 1
                  => LET date == results'[Len(results')][1] IN
                     /\ IsIsoDate(date)
                     /\ parsed(date)[1] = parsed(last.start_date)[1]
                     /\ DayOfYear(parsed(date))
                           = DayOfYear(parsed(last.start_date)) + Len(results)
                     /\ ~DateAfter(parsed(date), parsed(last.end_date))
               /\ (summary.pc = "loop" /\ summary'.pc = "idle")
                  => /\ last'.result = "Ok"
                     /\ Len(results') = DayOfYear(parsed(last.end_date))
                                           - DayOfYear(parsed(last.start_date)) + 1]_vars
    /\ (summary.pc = "loop") ~> (summary.pc = "idle")

\* a summary over three days has returned; the day in the middle had no log
\* and still has none
C34_Witness ==
    /\ last.op = "get_calorie_summary" /\ last.result = "Ok"
    /\ summary.pc = "idle"
    /\ Len(results) = 3
    /\ results[1][2] = 95 /\ results[2][2] = 0
    /\ ~HasLog(daily_logs, "2024-02-29")
    /\ HasLog(daily_logs, "2024-02-28")

\* the calories of each composite food, in order
CompositeCalories(cf) == [i \in 1..Len(cf) |-> get_calories(cf[i].components)]

\* C35: a catalog built by successful add_basic_food and add_composite_food
\* calls, saved and loaded again, has the same basic foods and for every
\* composite food the same flattened components (identifiers, quantities,
\* order), and so the same calories.
C35_SaveLoadRoundTrip ==
    /\ [][(/\ last'.op \in {"add_basic_food", "add_composite_food"}
           /\ last'.result = "Ok")
            => db_files' = database_save(basic_foods', composite_foods')]_vars
    /\ [][(/\ last.op = "new" /\ sessions > 1 /\ last'.op = "load"
           /\ db_files = database_save(last.left_basic, last.left_composite))
            => /\ basic_foods' = last.left_basic
               /\ composite_foods' = last.left_composite
               /\ CompositeCalories(composite_foods') = CompositeCalories(last.left_composite)]_vars

\* loaded in the second session: a composite that was flattened from another
\* one when it was added, with its scaled quantities
C35_Witness ==
    /\ last.op = "load" /\ sessions = 2
    /\ db_files = database_save(basic_foods, composite_foods)
    /\ \E i \in 1..Len(composite_foods) :
          /\ composite_foods[i].identifier = "meal"
          /\ composite_foods[i].components
                = <<Component(Food("apple", 95), 6), Component(Food("rice", 130), 1)>>

====
